---- MODULE Spec2Model ----
(***************************************************************************)
(* A model of calibre's DOCX container writer                              *)
(* (src/calibre/ebooks/docx/writer/container.py): the relationship         *)
(* registry DocumentRelationships, the content-type manifest               *)
(* DOCX.contenttypes, the core-properties update update_doc_props and the  *)
(* archive writer DOCX.write.                                              *)
(*                                                                         *)
(* File names and relationship targets are sequences of tokens, "." being  *)
(* the extension separator, so that rpartition is computed and not         *)
(* assumed.  Python's None is NoMode as a target mode and NoneId as an     *)
(* identifier.  The module is Python 2: iteration over a dict or a set     *)
(* follows the hash table, not the insertion order.                        *)
(***************************************************************************)
EXTENDS Integers, Sequences, FiniteSets, Bags, TLC

VARIABLES
    rmap,        \* DocumentRelationships.rmap: key -> identifier
    inserted,    \* history: the keys of rmap in the order they were first registered
    seedOrder,   \* the order in which __init__'s dict literal is iterated
    dictOrder,   \* the order in which this process's hash table lists the keys
    lastOp,      \* the last registry call: [op, key, ret]
    twiceKey,    \* the key k when the last calls were add(k), add(k) [, serialize()]
    ncalls,      \* number of registry calls made by callers
    populated,   \* whether the body builder has assigned DOCX.images, .document, .styles
    images,      \* the file names of DOCX.images (name -> data getter)
    fonts,       \* the file names of DOCX.fonts (name -> bytes)
    ctOut,       \* the last evaluation of DOCX.contenttypes: its inputs and its result
    root,        \* the children of the core-properties root: [tag, text]
    propLog,     \* history of the update_doc_props calls on root
    wstate,      \* DOCX.write: "idle", "writing", "done" or "failed"
    pos,         \* the statement of write's body that runs next (1..12)
    wArgs,       \* the running or last write: its metadata and the stores it iterates
    zf,          \* the entries the running or last write put in the archive: [name, data]
    calls,       \* the data getters that write invoked: [name, at (entries written), ok]
    exc,         \* the exception that left the last write: [kind, name]
    todoImages,  \* image names the loop of write has yet to reach
    todoFonts,   \* font names the loop of write has yet to reach
    serialLog,   \* history: the serialize() calls made by write: [write, at, rmap]
    writeCount   \* number of write calls on this DOCX

regVars == <<rmap, inserted, seedOrder, dictOrder, lastOp, twiceKey, ncalls>>

storeVars == <<populated, images, fonts>>

propVars == <<root, propLog>>

writeVars == <<wstate, pos, wArgs, zf, calls, exc, todoImages, todoFonts, serialLog, writeCount>>

vars == <<regVars, storeVars, ctOut, propVars, writeVars>>

----------------------------------------------------------------------------
\* Bounds of the model.

\* Caller calls on one registry.
MaxCalls == 4

\* Entries of DOCX.images and of DOCX.fonts.
MaxImages == 3
MaxFonts == 1

\* Calls of update_doc_props on one root.
MaxPropCalls == 2

\* write calls on one DOCX.
MaxWrites == 2

----------------------------------------------------------------------------
\* Names.

DOT == "."

NoMode == "None"
NoneId == <<"None">>

STYLES == "relationships/styles"
WEB_SETTINGS == "relationships/webSettings"
FONTS == "relationships/fontTable"
IMAGES == "relationships/image"
HYPERLINK == "relationships/hyperlink"

StylesXml == <<"styles", DOT, "xml">>
WebSettingsXml == <<"webSettings", DOT, "xml">>
FontTableXml == <<"fontTable", DOT, "xml">>

\* The dict literal of __init__: type -> target.
SeedDict == (STYLES :> StylesXml) @@ (WEB_SETTINGS :> WebSettingsXml) @@ (FONTS :> FontTableXml)

Key(target, rtype, target_mode) == <<target, rtype, target_mode>>

BuiltInKeys == {Key(SeedDict[typ], typ, NoMode) : typ \in DOMAIN SeedDict}

\* Targets the body builder registers: an image whose name sorts before
\* every built-in target, and an external hyperlink.
ImageTarget == <<"aaa", DOT, "png">>
LinkTarget == <<"http://example", DOT, "com">>

CallerKeys == {Key(ImageTarget, IMAGES, NoMode), Key(LinkTarget, HYPERLINK, "External")}

AllKeys == BuiltInKeys \cup CallerKeys

NoKey == Key(<<>>, "", NoMode)

Perms(S) ==
    {s \in [1..Cardinality(S) -> S] : \A i, j \in 1..Cardinality(S) : i # j => s[i] # s[j]}

----------------------------------------------------------------------------
\* DocumentRelationships.

\* 'rId%d' % n
RId(n) == <<"rId", n>>

IdNum(id) == id[2]

\* A lookup that ignores the target mode of the key.
get_relationship_id_nomode(m, key) ==
    IF Key(key[1], key[2], NoMode) \in DOMAIN m THEN m[Key(key[1], key[2], NoMode)] ELSE NoneId

get_relationship_id(m, key) == IF key \in DOMAIN m THEN m[key] ELSE NoneId

\* A registry whose counter starts at 0.
add_relationship_from0(m, key) ==
    LET ans == IF key \in DOMAIN m THEN m[key] ELSE NoneId
    IN  IF ans = NoneId
        THEN [rmap |-> (key :> RId(Cardinality(DOMAIN m))) @@ m, ans |-> RId(Cardinality(DOMAIN m))]
        ELSE [rmap |-> m, ans |-> ans]

\* A registry that allocates without looking the key up first.
add_relationship_nolookup(m, key) ==
    LET new == RId(Cardinality(DOMAIN m) + 1)
    IN  [rmap |-> (key :> new) @@ m, ans |-> new]

\* add_relationship: the map after the call and the identifier returned.
add_relationship(m, key) ==
    LET ans == get_relationship_id(m, key)
    IN  IF ans = NoneId
        THEN LET new == RId(Cardinality(DOMAIN m) + 1)
             IN  [rmap |-> (key :> new) @@ m, ans |-> new]
        ELSE [rmap |-> m, ans |-> ans]

add_image(m, target) == add_relationship(m, Key(target, IMAGES, NoMode))

\* The loop of __init__ over the seed dict, in iteration order `order`
\* (a sequence of types).
RECURSIVE SeedMap(_)
SeedMap(order) ==
    IF order = <<>> THEN <<>>
    ELSE LET typ == order[Len(order)]
         IN  add_relationship(SeedMap(SubSeq(order, 1, Len(order) - 1)),
                              Key(SeedDict[typ], typ, NoMode)).rmap

SeedKeys(order) == [i \in 1..Len(order) |-> Key(SeedDict[order[i]], order[i], NoMode)]

\* xml2str: the XML declaration followed by the tree.
xml2str(tree) == <<"<?xml version='1.0' encoding='utf-8'?>", tree>>

\* One Relationship element; TargetMode is set only when it is not None.
Relationship(key, rid) ==
    IF key[3] # NoMode
    THEN [Id |-> rid, Type |-> key[2], Target |-> key[1], TargetMode |-> key[3]]
    ELSE [Id |-> rid, Type |-> key[2], Target |-> key[1]]

\* A serialize that leaves out the relationships carrying a target mode.
serialize_internal_only(m, order) ==
    LET keys == SelectSeq(order, LAMBDA k : k \in DOMAIN m /\ k[3] = NoMode)
    IN  xml2str([tag |-> "Relationships",
                 children |-> [i \in 1..Len(keys) |-> Relationship(keys[i], m[keys[i]])]])

\* serialize: one element per item of rmap, in the hash table's order.
serialize(m, order) ==
    LET keys == SelectSeq(order, LAMBDA k : k \in DOMAIN m)
    IN  xml2str([tag |-> "Relationships",
                 children |-> [i \in 1..Len(keys) |-> Relationship(keys[i], m[keys[i]])]])

\* The key an emitted Relationship element stands for.
ElemKey(r) == Key(r.Target, r.Type, IF "TargetMode" \in DOMAIN r THEN r.TargetMode ELSE NoMode)

Children(doc) == doc[2].children

----------------------------------------------------------------------------
\* DOCX.contenttypes.

\* fname.rpartition(os.extsep)[-1]: what follows the last separator, the
\* whole name when it has none.
LastDot(name) ==
    LET dots == {i \in 1..Len(name) : name[i] = DOT}
    IN  IF dots = {} THEN 0 ELSE CHOOSE i \in dots : \A j \in dots : j <= i

ExtOf(name) == SubSeq(name, LastDot(name) + 1, Len(name))

NoneMt == "None"

\* The extensions calibre's MIME database knows, among those of the model.
MimeTable ==
    (<<"png">> :> "image/png") @@ (<<"gif">> :> "image/gif") @@ (<<"jpeg">> :> "image/jpeg")
    @@ (<<"jpg">> :> "image/jpeg") @@ (<<"svg">> :> "image/svg+xml")
    @@ (<<"xml">> :> "application/xml") @@ (<<"tiff">> :> "image/tiff")
    @@ (<<"ttf">> :> "application/x-font-truetype")

\* calibre.guess_type(name): (type, encoding), the type None when unknown.
guess_type(name) ==
    IF LastDot(name) > 0 /\ ExtOf(name) \in DOMAIN MimeTable
    THEN <<MimeTable[ExtOf(name)], NoneMt>>
    ELSE <<NoneMt, NoneMt>>

OverrideParts ==
    { <<<<"/word/footnotes", DOT, "xml">>, "wordprocessingml.footnotes+xml">>,
      <<<<"/word/document", DOT, "xml">>, "wordprocessingml.document.main+xml">>,
      <<<<"/word/numbering", DOT, "xml">>, "wordprocessingml.numbering+xml">>,
      <<<<"/word/styles", DOT, "xml">>, "wordprocessingml.styles+xml">>,
      <<<<"/word/endnotes", DOT, "xml">>, "wordprocessingml.endnotes+xml">>,
      <<<<"/word/settings", DOT, "xml">>, "wordprocessingml.settings+xml">>,
      <<<<"/word/theme/theme1", DOT, "xml">>, "theme+xml">>,
      <<<<"/word/fontTable", DOT, "xml">>, "wordprocessingml.fontTable+xml">>,
      <<<<"/word/webSettings", DOT, "xml">>, "wordprocessingml.webSettings+xml">>,
      <<<<"/docProps/core", DOT, "xml">>, "package.core-properties+xml">>,
      <<<<"/docProps/app", DOT, "xml">>, "extended-properties+xml">> }

GuessedDefaults == {<<"png">>, <<"gif">>, <<"jpeg">>, <<"jpg">>, <<"svg">>, <<"xml">>}

TypedDefaults ==
    { <<<<"rels">>, "package.relationships+xml">>,
      <<<<"odttf">>, "officedocument.obfuscatedFont">> }

FixedDefaults == GuessedDefaults \cup {d[1] : d \in TypedDefaults}

\* types.append(E.<tag>(<name attribute>=name, ContentType=mt)); an
\* attribute value of None makes lxml raise TypeError.
AppendElem(acc, tag, name, mt) ==
    IF acc.raised # "no" THEN acc
    ELSE IF mt = NoneMt THEN [acc EXCEPT !.raised = "TypeError"]
    ELSE [acc EXCEPT !.types = @ (+) SetToBag({[tag |-> tag, name |-> name, ContentType |-> mt]})]

\* The loops over the fixed dicts and the fixed set add one element per
\* item, whatever the order of iteration.
RECURSIVE AppendAll(_, _, _)
AppendAll(acc, tag, items) ==
    IF items = {} THEN acc
    ELSE LET it == CHOOSE x \in items : TRUE
         IN  AppendAll(AppendElem(acc, tag, it[1], it[2]), tag, items \ {it})

\* The body of the loop over the images without the test `ext not in added`.
ImageStep_nodedup(acc, fname) ==
    LET ext == ExtOf(fname)
        mt == guess_type(<<"a", DOT>> \o ext)[1]
    IN  IF acc.raised # "no" THEN acc
        ELSE IF mt # NoneMt
             THEN AppendElem([acc EXCEPT !.added = @ \cup {ext}], "Default", ext, mt)
             ELSE [acc EXCEPT !.added = @ \cup {ext}]

\* The body of the loop over the images without the test `if mt`.
ImageStep_nomtcheck(acc, fname) ==
    LET ext == ExtOf(fname)
        mt == guess_type(<<"a", DOT>> \o ext)[1]
    IN  IF acc.raised # "no" \/ ext \in acc.added THEN acc
        ELSE AppendElem([acc EXCEPT !.added = @ \cup {ext}], "Default", ext, mt)

\* The body of the loop over the images.
ImageStep(acc, fname) ==
    LET ext == ExtOf(fname)
        mt == guess_type(<<"a", DOT>> \o ext)[1]
    IN  IF acc.raised # "no" \/ ext \in acc.added THEN acc
        ELSE IF mt # NoneMt
             THEN AppendElem([acc EXCEPT !.added = @ \cup {ext}], "Default", ext, mt)
             ELSE [acc EXCEPT !.added = @ \cup {ext}]

RECURSIVE ImageLoop(_, _)
ImageLoop(acc, order) ==
    IF order = <<>> THEN acc
    ELSE ImageStep(ImageLoop(acc, SubSeq(order, 1, Len(order) - 1)), order[Len(order)])

\* contenttypes, the images iterated in `order`; self.images is an
\* attribute the body builder assigns, absent until then.
contenttypes(pop, order) ==
    LET a0 == [types |-> EmptyBag, added |-> {}, raised |-> "no"]
        a1 == AppendAll(a0, "Override", OverrideParts)
        a2 == AppendAll([a1 EXCEPT !.added = GuessedDefaults], "Default",
                        {<<ext, guess_type(<<"a", DOT>> \o ext)[1]>> : ext \in GuessedDefaults})
        a3 == AppendAll([a2 EXCEPT !.added = @ \cup {d[1] : d \in TypedDefaults}], "Default",
                        TypedDefaults)
    IN  IF ~pop THEN [a3 EXCEPT !.raised = "AttributeError"]
        ELSE LET a4 == ImageLoop(a3, order)
             IN  [types |-> a4.types, raised |-> a4.raised]

\* File names the resource collector stores.
ImageNames ==
    { <<"media/image1", DOT, "png">>,
      <<"media/image2", DOT, "tiff">>,
      <<"media/image3", DOT, "tiff">>,
      <<"media/image4", DOT, "png">>,
      <<"README">>,
      <<"media/image", DOT, "v2", DOT, "zzz">>,
      <<"media/trailing", DOT>> }

FontNames == { <<"fonts/font1", DOT, "odttf">>, <<"fonts/font2", DOT, "ttf">> }

----------------------------------------------------------------------------
\* update_doc_props.

\* namespaces[ns], of calibre.ebooks.docx.names.
namespaces ==
    ("dc" :> "http://purl.org/dc/elements/1.1/")
    @@ ("cp" :> "http://schemas.openxmlformats.org/package/2006/metadata/core-properties")
    @@ ("dcterms" :> "http://purl.org/dc/terms/")

\* '{%s}%s' % (namespaces[ns], name)
QName(ns, name) == <<"{", namespaces[ns], "}", name>>

NoText == <<"None">>

\* setm that removes only the first element of the name.
setm_removefirst(children, name, text, ns) ==
    LET tag == QName(ns, name)
        hits == {i \in 1..Len(children) : children[i].tag = tag}
        first == IF hits = {} THEN 0 ELSE CHOOSE i \in hits : \A j \in hits : i <= j
        kept == [i \in 1..(Len(children) - (IF first = 0 THEN 0 ELSE 1)) |->
                    IF first = 0 \/ i < first THEN children[i] ELSE children[i + 1]]
    IN  Append(kept, [tag |-> tag, text |-> text])

\* setm: remove every child of the new element's tag, then append it.
setm(children, name, text, ns) ==
    LET tag == QName(ns, name)
    IN  Append(SelectSeq(children, LAMBDA c : c.tag # tag), [tag |-> tag, text |-> text])

\* The collaborators' results are kept symbolic: authors_to_string and
\* ', '.join are applications to their argument.
authors_to_string(authors) == <<"authors_to_string", authors>>

JoinTags(tags) == <<"', '.join", tags>>

\* canonicalize_lang and lang_as_iso639_1 on the language tags of the model:
\* "en" has the three-letter form "eng"; "ang" has no two-letter form;
\* "x-none" is no language.
canonicalize_lang(raw) ==
    CASE raw = "en" -> "eng" [] raw = "ang" -> "ang" [] OTHER -> "None"

lang_as_iso639_1(l) == IF l = "eng" THEN "en" ELSE "None"

\* update_doc_props(root, mi): the children of root after the call.
update_doc_props(children, mi) ==
    LET c1 == setm(children, "title", <<mi.title>>, "dc")
        c2 == setm(c1, "creator", authors_to_string(mi.authors), "dc")
        c3 == IF mi.tags # <<>> THEN setm(c2, "keywords", JoinTags(mi.tags), "cp") ELSE c2
        c4 == IF mi.comments # "None" THEN setm(c3, "description", <<mi.comments>>, "dc") ELSE c3
        l == canonicalize_lang(mi.languages[1])
        lang == IF lang_as_iso639_1(l) # "None" THEN lang_as_iso639_1(l) ELSE l
    IN  IF mi.languages # <<>>
        THEN setm(c4, "language", IF lang = "None" THEN NoText ELSE <<lang>>, "dc")
        ELSE c4

\* The names one call sets.
NamesSet(mi) ==
    {QName("dc", "title"), QName("dc", "creator")}
    \cup (IF mi.tags # <<>> THEN {QName("cp", "keywords")} ELSE {})
    \cup (IF mi.comments # "None" THEN {QName("dc", "description")} ELSE {})
    \cup (IF mi.languages # <<>> THEN {QName("dc", "language")} ELSE {})

\* Metadata records.
MetaRecords ==
    [title : {"Sample", "Other"},
     authors : {<<"A. Author", "B. Writer">>},
     tags : {<<>>, <<"t1", "t2">>},
     comments : {"None", "a comment"},
     languages : {<<>>, <<"en", "ang">>, <<"x-none">>}]

\* The root convert_metadata builds before it calls update_doc_props.
CpRoot ==
    << [tag |-> QName("cp", "revision"), text |-> <<"1">>],
       [tag |-> QName("cp", "lastModifiedBy"), text |-> <<"calibre">>],
       [tag |-> QName("dcterms", "created"), text |-> <<"now">>],
       [tag |-> QName("dcterms", "modified"), text |-> <<"now">>] >>

\* A root that already holds several elements of one name.
DupRoot ==
    << [tag |-> QName("dc", "title"), text |-> <<"old">>],
       [tag |-> QName("cp", "revision"), text |-> <<"1">>],
       [tag |-> QName("dc", "title"), text |-> <<"older">>],
       [tag |-> QName("dc", "description"), text |-> <<"d1">>],
       [tag |-> QName("dc", "description"), text |-> <<"d2">>],
       [tag |-> QName("dc", "title"), text |-> <<"oldest">>] >>

----------------------------------------------------------------------------
\* The parts of the state a specification leaves alone.

NoCt == [called |-> FALSE, populated |-> FALSE, images |-> {}, fonts |-> {},
         types |-> EmptyBag, raised |-> "no"]

RegIdle ==
    /\ seedOrder = <<STYLES, WEB_SETTINGS, FONTS>>
    /\ dictOrder = SeedKeys(seedOrder) \o <<Key(ImageTarget, IMAGES, NoMode), Key(LinkTarget, HYPERLINK, "External")>>
    /\ rmap = SeedMap(seedOrder)
    /\ inserted = SeedKeys(seedOrder)
    /\ lastOp = [op |-> "init", key |-> NoKey, ret |-> NoneId]
    /\ twiceKey = NoKey
    /\ ncalls = 0

StoreIdle == populated = FALSE /\ images = {} /\ fonts = {}


NoExc == [kind |-> "none", name |-> <<>>]

NoArgs == [mi |-> CHOOSE mi \in MetaRecords : TRUE, images |-> {}, fonts |-> {}]

WriteIdle ==
    /\ wstate = "idle" /\ pos = 0 /\ wArgs = NoArgs /\ zf = <<>> /\ calls = <<>> /\ exc = NoExc
    /\ todoImages = {} /\ todoFonts = {} /\ serialLog = <<>> /\ writeCount = 0

PropIdle == root = CpRoot /\ propLog = [titles |-> <<>>, set |-> {}, last |-> {}, before |-> CpRoot]

----------------------------------------------------------------------------
\* The content-type manifest as a state machine.

\* The body builder assigns the attributes __init__ leaves out.
Populate ==
    /\ wstate # "writing"
    /\ ~populated
    /\ populated' = TRUE
    /\ images' = {}
    /\ UNCHANGED <<regVars, fonts, ctOut, propVars, writeVars>>

\* self.images[name] = data_getter
StoreImage(name) ==
    /\ wstate # "writing"
    /\ populated
    /\ name \notin images
    /\ Cardinality(images) < MaxImages
    /\ images' = images \cup {name}
    /\ UNCHANGED <<regVars, populated, fonts, ctOut, propVars, writeVars>>

\* self.fonts[name] = data
StoreFont(name) ==
    /\ wstate # "writing"
    /\ name \notin fonts
    /\ Cardinality(fonts) < MaxFonts
    /\ fonts' = fonts \cup {name}
    /\ UNCHANGED <<regVars, populated, images, ctOut, propVars, writeVars>>

\* An evaluation of the property contenttypes.
ContentTypes ==
    /\ wstate # "writing"
    /\ \E order \in Perms(images) :
          LET r == contenttypes(populated, order)
          IN  ctOut' = [called |-> TRUE, populated |-> populated, images |-> images,
                        fonts |-> fonts, types |-> r.types, raised |-> r.raised]
    /\ UNCHANGED <<regVars, storeVars, propVars, writeVars>>

InitCT == RegIdle /\ StoreIdle /\ ctOut = NoCt /\ PropIdle /\ WriteIdle

NextCT ==
    \/ Populate
    \/ \E name \in ImageNames : StoreImage(name)
    \/ \E name \in FontNames : StoreFont(name)
    \/ ContentTypes

SpecCT == InitCT /\ [][NextCT]_vars

----------------------------------------------------------------------------
\* update_doc_props as a state machine.

InitProps ==
    /\ RegIdle /\ StoreIdle /\ ctOut = NoCt /\ WriteIdle
    /\ root \in {CpRoot, DupRoot}
    /\ propLog = [titles |-> <<>>, set |-> {}, last |-> {}, before |-> root]

UpdateDocProps(mi) ==
    /\ wstate # "writing"
    /\ Len(propLog.titles) < MaxPropCalls
    /\ root' = update_doc_props(root, mi)
    /\ propLog' = [titles |-> Append(propLog.titles, mi.title),
                   set |-> propLog.set \cup NamesSet(mi),
                   last |-> NamesSet(mi),
                   before |-> root]
    /\ UNCHANGED <<regVars, storeVars, ctOut, writeVars>>

NextProps == \E mi \in MetaRecords : UpdateDocProps(mi)

SpecProps == InitProps /\ [][NextProps]_vars

----------------------------------------------------------------------------
\* The registry as a state machine.

InitReg ==
    /\ seedOrder \in Perms(DOMAIN SeedDict)
    /\ dictOrder \in Perms(AllKeys)
    /\ rmap = SeedMap(seedOrder)
    /\ inserted = SeedKeys(seedOrder)
    /\ lastOp = [op |-> "init", key |-> NoKey, ret |-> NoneId]
    /\ twiceKey = NoKey
    /\ ncalls = 0
    /\ StoreIdle /\ ctOut = NoCt /\ PropIdle /\ WriteIdle

GetRelationshipId(key) ==
    /\ wstate # "writing"
    /\ ncalls < MaxCalls
    /\ ncalls' = ncalls + 1
    /\ lastOp' = [op |-> "get", key |-> key, ret |-> get_relationship_id(rmap, key)]
    /\ twiceKey' = NoKey
    /\ UNCHANGED <<rmap, inserted, seedOrder, dictOrder, storeVars, ctOut, propVars, writeVars>>

AddRelationship(key) ==
    LET r == add_relationship(rmap, key)
    IN  /\ wstate # "writing"
        /\ ncalls < MaxCalls
        /\ ncalls' = ncalls + 1
        /\ rmap' = r.rmap
        /\ inserted' = IF key \in DOMAIN rmap THEN inserted ELSE Append(inserted, key)
        /\ lastOp' = [op |-> "add", key |-> key, ret |-> r.ans]
        /\ twiceKey' = IF lastOp.op = "add" /\ lastOp.key = key THEN key ELSE NoKey
        /\ UNCHANGED <<seedOrder, dictOrder, storeVars, ctOut, propVars, writeVars>>

AddImage(target) ==
    LET key == Key(target, IMAGES, NoMode)
        r == add_image(rmap, target)
    IN  /\ wstate # "writing"
        /\ ncalls < MaxCalls
        /\ ncalls' = ncalls + 1
        /\ rmap' = r.rmap
        /\ inserted' = IF key \in DOMAIN rmap THEN inserted ELSE Append(inserted, key)
        /\ lastOp' = [op |-> "add", key |-> key, ret |-> r.ans]
        /\ twiceKey' = IF lastOp.op = "add" /\ lastOp.key = key THEN key ELSE NoKey
        /\ UNCHANGED <<seedOrder, dictOrder, storeVars, ctOut, propVars, writeVars>>

Serialize ==
    /\ wstate # "writing"
    /\ ncalls < MaxCalls
    /\ ncalls' = ncalls + 1
    /\ lastOp' = [op |-> "serialize", key |-> NoKey, ret |-> serialize(rmap, dictOrder)]
    /\ UNCHANGED <<rmap, inserted, seedOrder, dictOrder, twiceKey, storeVars, ctOut, propVars, writeVars>>

NextReg ==
    \/ \E key \in AllKeys : GetRelationshipId(key)
    \/ \E key \in AllKeys : AddRelationship(key)
    \/ AddImage(ImageTarget)
    \/ Serialize

SpecReg == InitReg /\ [][NextReg]_vars

----------------------------------------------------------------------------
\* DOCX.write.

\* The ten entries write names itself, in the order of its statements.
FixedNames ==
    << <<"[Content_Types]", DOT, "xml">>,
       <<"_rels/", DOT, "rels">>,
       <<"docProps/core", DOT, "xml">>,
       <<"docProps/app", DOT, "xml">>,
       <<"word/webSettings", DOT, "xml">>,
       <<"word/document", DOT, "xml">>,
       <<"word/styles", DOT, "xml">>,
       <<"word/fontTable", DOT, "xml">>,
       <<"word/_rels/document", DOT, "xml", DOT, "rels">>,
       <<"word/_rels/fontTable", DOT, "xml", DOT, "rels">> >>

RelsPos == 9

ImagesPos == 11

FontsPos == 12

\* convert_metadata: a fresh core-properties root, updated from the metadata.
convert_metadata(mi) == xml2str([tag |-> "coreProperties", children |-> update_doc_props(CpRoot, mi)])

\* A write whose font-table relationships are serialized from the document
\* registry as well.
SerializesAt_both(p) == p \in {RelsPos, RelsPos + 1}

\* The statements of write that call document_relationships.serialize().
SerializesAt(p) == p = RelsPos

\* The data of the fixed entry written by statement p (2..10).
FixedData(p, mi, m, order) ==
    IF p = 3 THEN convert_metadata(mi)
    ELSE IF SerializesAt(p) THEN serialize(m, order)
    ELSE xml2str([tag |-> FixedNames[p]])

\* Where write goes once the fixed entries, or one more resource, are
\* written: the loop over the images, then the loop over the fonts.
After(imgs, fnts) ==
    IF imgs # {} THEN [wstate |-> "writing", pos |-> ImagesPos]
    ELSE IF fnts # {} THEN [wstate |-> "writing", pos |-> FontsPos]
    ELSE [wstate |-> "done", pos |-> 0]

Names(entries) == [i \in 1..Len(entries) |-> entries[i].name]

\* write(path_or_stream, oeb): the archive is opened.
WriteBegin(mi) ==
    /\ wstate # "writing"
    /\ writeCount < MaxWrites
    /\ writeCount' = writeCount + 1
    /\ wstate' = "writing" /\ pos' = 1
    /\ wArgs' = [mi |-> mi, images |-> images, fonts |-> fonts]
    /\ zf' = <<>> /\ calls' = <<>> /\ exc' = NoExc
    /\ todoImages' = {} /\ todoFonts' = {}
    /\ UNCHANGED <<regVars, storeVars, ctOut, propVars, serialLog>>

\* zf.writestr('[Content_Types].xml', self.contenttypes)
WriteContentTypes ==
    /\ wstate = "writing" /\ pos = 1
    /\ \E order \in Perms(images) :
          LET r == contenttypes(populated, order)
          IN  /\ ctOut' = [called |-> TRUE, populated |-> populated, images |-> images,
                           fonts |-> fonts, types |-> r.types, raised |-> r.raised]
              /\ IF r.raised = "no"
                 THEN /\ zf' = Append(zf, [name |-> FixedNames[1], data |-> xml2str(r.types)])
                      /\ pos' = 2
                      /\ UNCHANGED <<wstate, exc>>
                 ELSE /\ wstate' = "failed"
                      /\ exc' = [kind |-> r.raised, name |-> <<>>]
                      /\ UNCHANGED <<zf, pos>>
    /\ UNCHANGED <<regVars, storeVars, propVars, wArgs, calls, todoImages, todoFonts,
                   serialLog, writeCount>>

\* A write that reads an image's data ahead of the loop, while the fixed
\* entries are still being written.
WriteFixedPart_eager ==
    /\ wstate = "writing" /\ pos \in 2..10
    /\ zf' = Append(zf, [name |-> FixedNames[pos],
                         data |-> FixedData(pos, wArgs.mi, rmap, dictOrder)])
    /\ serialLog' = IF SerializesAt(pos)
                    THEN Append(serialLog, [write |-> writeCount, at |-> Len(zf), rmap |-> rmap])
                    ELSE serialLog
    /\ calls' = IF pos = 2 /\ images # {}
                THEN Append(calls, [name |-> CHOOSE n \in images : TRUE, at |-> Len(zf), ok |-> TRUE])
                ELSE calls
    /\ IF pos < 10
       THEN pos' = pos + 1 /\ UNCHANGED <<wstate, todoImages, todoFonts>>
       ELSE /\ todoImages' = images /\ todoFonts' = fonts
            /\ wstate' = After(images, fonts).wstate /\ pos' = After(images, fonts).pos
    /\ UNCHANGED <<regVars, storeVars, ctOut, propVars, wArgs, exc, writeCount>>

\* The statements that write the fixed entries 2..10; the ninth serializes
\* the document relationships; after the tenth the loops begin.
WriteFixedPart ==
    /\ wstate = "writing" /\ pos \in 2..10
    /\ zf' = Append(zf, [name |-> FixedNames[pos],
                         data |-> FixedData(pos, wArgs.mi, rmap, dictOrder)])
    /\ serialLog' = IF SerializesAt(pos)
                    THEN Append(serialLog, [write |-> writeCount, at |-> Len(zf), rmap |-> rmap])
                    ELSE serialLog
    /\ IF pos < 10
       THEN pos' = pos + 1 /\ UNCHANGED <<wstate, todoImages, todoFonts>>
       ELSE /\ todoImages' = images /\ todoFonts' = fonts
            /\ wstate' = After(images, fonts).wstate /\ pos' = After(images, fonts).pos
    /\ UNCHANGED <<regVars, storeVars, ctOut, propVars, wArgs, calls, exc, writeCount>>

\* zf.writestr(fname, data_getter()), the getter returning its bytes.
WriteImage(fname) ==
    /\ wstate = "writing" /\ pos = ImagesPos
    /\ fname \in todoImages
    /\ calls' = Append(calls, [name |-> fname, at |-> Len(zf), ok |-> TRUE])
    /\ zf' = Append(zf, [name |-> fname, data |-> <<"bytes of", fname>>])
    /\ todoImages' = todoImages \ {fname}
    /\ wstate' = After(todoImages', todoFonts).wstate
    /\ pos' = After(todoImages', todoFonts).pos
    /\ UNCHANGED <<regVars, storeVars, ctOut, propVars, wArgs, exc, todoFonts, serialLog,
                   writeCount>>

\* A write that skips an image whose getter raises and goes on.
ImageGetterRaises_skip(fname) ==
    /\ wstate = "writing" /\ pos = ImagesPos
    /\ fname \in todoImages
    /\ calls' = Append(calls, [name |-> fname, at |-> Len(zf), ok |-> FALSE])
    /\ todoImages' = todoImages \ {fname}
    /\ wstate' = After(todoImages', todoFonts).wstate
    /\ pos' = After(todoImages', todoFonts).pos
    /\ UNCHANGED <<regVars, storeVars, ctOut, propVars, wArgs, zf, exc, todoFonts, serialLog,
                   writeCount>>

\* data_getter() raises: the exception leaves the with block and write.
ImageGetterRaises(fname) ==
    /\ wstate = "writing" /\ pos = ImagesPos
    /\ fname \in todoImages
    /\ calls' = Append(calls, [name |-> fname, at |-> Len(zf), ok |-> FALSE])
    /\ exc' = [kind |-> "getter", name |-> fname]
    /\ wstate' = "failed"
    /\ UNCHANGED <<regVars, storeVars, ctOut, propVars, wArgs, pos, zf, todoImages, todoFonts,
                   serialLog, writeCount>>

\* zf.writestr(fname, data) for a font.
WriteFont(fname) ==
    /\ wstate = "writing" /\ pos = FontsPos
    /\ fname \in todoFonts
    /\ zf' = Append(zf, [name |-> fname, data |-> <<"bytes of", fname>>])
    /\ todoFonts' = todoFonts \ {fname}
    /\ wstate' = After({}, todoFonts').wstate
    /\ pos' = After({}, todoFonts').pos
    /\ UNCHANGED <<regVars, storeVars, ctOut, propVars, wArgs, calls, exc, todoImages,
                   serialLog, writeCount>>

\* zf.writestr raises IOError (disk, permissions) at a fixed or font entry.
ArchiveError ==
    /\ wstate = "writing" /\ pos # ImagesPos
    /\ wstate' = "failed"
    /\ exc' = [kind |-> "IOError", name |-> <<>>]
    /\ UNCHANGED <<regVars, storeVars, ctOut, propVars, wArgs, pos, zf, calls, todoImages,
                   todoFonts, serialLog, writeCount>>

\* zf.writestr raises IOError at an image entry, its getter having returned.
ArchiveErrorAtImage(fname) ==
    /\ wstate = "writing" /\ pos = ImagesPos
    /\ fname \in todoImages
    /\ calls' = Append(calls, [name |-> fname, at |-> Len(zf), ok |-> TRUE])
    /\ wstate' = "failed"
    /\ exc' = [kind |-> "IOError", name |-> fname]
    /\ UNCHANGED <<regVars, storeVars, ctOut, propVars, wArgs, pos, zf, todoImages, todoFonts,
                   serialLog, writeCount>>

\* Names the resource collector stores in the runs of write.
WriteImageNames == { <<"media/image1", DOT, "png">>, <<"README">> }

WriteRecords == {mi \in MetaRecords : mi.tags = <<>> /\ mi.comments = "None" /\ mi.languages = <<>>}

InitWrite == RegIdle /\ StoreIdle /\ ctOut = NoCt /\ PropIdle /\ WriteIdle

NextWrite ==
    \/ Populate
    \/ \E name \in WriteImageNames : StoreImage(name)
    \/ \E name \in FontNames : StoreFont(name)
    \/ AddImage(ImageTarget)
    \/ \E mi \in WriteRecords : WriteBegin(mi)
    \/ WriteContentTypes
    \/ WriteFixedPart
    \/ \E fname \in WriteImageNames : WriteImage(fname)
    \/ \E fname \in WriteImageNames : ImageGetterRaises(fname)
    \/ \E fname \in FontNames : WriteFont(fname)
    \/ ArchiveError
    \/ \E fname \in WriteImageNames : ArchiveErrorAtImage(fname)

SpecWrite == InitWrite /\ [][NextWrite]_vars

----------------------------------------------------------------------------
\* Claims about the registry (checked under SpecReg).

\* The keys of the elements a serialize() call returned, in document order.
EmittedKeys(doc) == [i \in 1..Len(Children(doc)) |-> ElemKey(Children(doc)[i])]

CountOf(seq, x) == Cardinality({i \in 1..Len(seq) : seq[i] = x})

\* C1: two add_relationship calls in a row with one key return the same
\* identifier, the second leaves rmap unchanged, and a serialize() that
\* follows emits exactly one Relationship element for that key.
C1_IdempotentAdd ==
    /\ [][(/\ lastOp.op = "add" /\ lastOp'.op = "add"
           /\ ncalls' = ncalls + 1 /\ lastOp'.key = lastOp.key)
            => (lastOp'.ret = lastOp.ret /\ rmap' = rmap)]_vars
    /\ [](lastOp.op = "serialize" /\ twiceKey # NoKey
            => CountOf(EmittedKeys(lastOp.ret), twiceKey) = 1)

\* A key new to the registry was added twice in a row and serialize() followed.
C1_Witness == lastOp.op = "serialize" /\ twiceKey \in CallerKeys

\* C2: no two distinct keys of rmap share an identifier, and a key that has
\* an identifier keeps it in every later state.
C2_UniqueAndStable ==
    /\ [](\A k1, k2 \in DOMAIN rmap : k1 # k2 => rmap[k1] # rmap[k2])
    /\ [][\A k \in DOMAIN rmap : k \in DOMAIN rmap' /\ rmap'[k] = rmap[k]]_vars

\* Both caller keys are registered and an existing key was added again.
C2_Witness ==
    /\ CallerKeys \subseteq DOMAIN rmap
    /\ lastOp.op = "add" /\ Len(inserted) = Cardinality(AllKeys) /\ lastOp.key # inserted[Len(inserted)]

\* C3: a fresh registry holds exactly the three built-in relationships,
\* numbered 1, 2 and 3 (in the order the seed dict is iterated); every other
\* relationship is numbered 4 or higher and the built-ins keep their
\* identifiers.
C3_SeededFirst ==
    /\ [](/\ BuiltInKeys \subseteq DOMAIN rmap
          /\ {rmap[k] : k \in BuiltInKeys} = {RId(1), RId(2), RId(3)}
          /\ (ncalls = 0 => DOMAIN rmap = BuiltInKeys)
          /\ \A k \in DOMAIN rmap \ BuiltInKeys : IdNum(rmap[k]) >= 4)
    /\ [][\A k \in BuiltInKeys : rmap'[k] = rmap[k]]_vars

\* The caller registered the image whose name sorts before the built-ins.
C3_Witness == lastOp.op = "add" /\ lastOp.key = Key(ImageTarget, IMAGES, NoMode) /\ lastOp.ret = RId(4)

\* C8 as claimed: serialize() lists the relationships in the order in which
\* their keys were first registered.
C8_InsertionOrder == lastOp.op = "serialize" => EmittedKeys(lastOp.ret) = inserted

PosIn(seq, x) == CHOOSE i \in 1..Len(seq) : seq[i] = x

\* C8 as amended: serialize() emits exactly one Relationship element per
\* registered key, carrying the key's identifier and its target mode when
\* it has one, in the order of the process's hash table, which need not be
\* the insertion order.
C8_HashOrder ==
    lastOp.op = "serialize" =>
        LET ch == Children(lastOp.ret)
            ks == EmittedKeys(lastOp.ret)
        IN  /\ Len(ch) = Cardinality(DOMAIN rmap)
            /\ \A k \in DOMAIN rmap : CountOf(ks, k) = 1
            /\ \A i \in 1..Len(ch) : ks[i] \in DOMAIN rmap /\ ch[i].Id = rmap[ks[i]]
            /\ \A i, j \in 1..Len(ch) : i < j => PosIn(dictOrder, ks[i]) < PosIn(dictOrder, ks[j])

\* serialize() ran on a registry holding an external link, and its order is
\* not the insertion order.
C8_Witness ==
    /\ lastOp.op = "serialize"
    /\ Key(LinkTarget, HYPERLINK, "External") \in DOMAIN rmap
    /\ EmittedKeys(lastOp.ret) # inserted

----------------------------------------------------------------------------
\* Claims about the content-type manifest (checked under SpecCT).

\* The Default elements of a manifest, and the extensions they declare.
Defaults(types) == {e \in BagToSet(types) : e.tag = "Default"}

DefaultExts(types) == {e.name : e \in Defaults(types)}

DefaultCount(types, ext) ==
    LET es == {e \in Defaults(types) : e.name = ext}
    IN  IF es = {} THEN 0 ELSE BagCardinality([e \in es |-> CopiesIn(e, types)])

Guessable(names) == {ExtOf(n) : n \in {x \in names : guess_type(<<"a", DOT>> \o ExtOf(x))[1] # NoneMt}}

\* C4: whatever image names the assembler holds, the manifest has at most
\* one Default element per extension and computing it does not raise.
C4_NoDuplicateDefaults ==
    (ctOut.called /\ ctOut.populated) =>
        /\ ctOut.raised = "no"
        /\ \A ext \in DefaultExts(ctOut.types) : DefaultCount(ctOut.types, ext) = 1

\* The manifest was computed for a name without separator, a name whose
\* extension is a fixed default and two names sharing an extension.
C4_Witness ==
    /\ ctOut.called /\ ctOut.populated
    /\ <<"README">> \in ctOut.images
    /\ \E n \in ctOut.images : ExtOf(n) \in FixedDefaults
    /\ \E n1, n2 \in ctOut.images : n1 # n2 /\ ExtOf(n1) = ExtOf(n2)

\* C5 as claimed: the declared extensions are the fixed defaults and the
\* extensions of known MIME type among the image and the font names.
C5_ImagesAndFonts ==
    (ctOut.called /\ ctOut.populated) =>
        DefaultExts(ctOut.types) = FixedDefaults \cup Guessable(ctOut.images \cup ctOut.fonts)

\* C5 as amended: the declared extensions are the fixed defaults and the
\* extensions of known MIME type among the image names only (the font
\* names are not consulted); no Default element lacks a content type.
C5_ImagesOnly ==
    (ctOut.called /\ ctOut.populated) =>
        /\ ctOut.raised = "no"
        /\ DefaultExts(ctOut.types) = FixedDefaults \cup Guessable(ctOut.images)
        /\ \A e \in Defaults(ctOut.types) : e.ContentType # NoneMt

\* The manifest was computed with an image of known type outside the
\* defaults, an image of unknown type and a font that is not an odttf.
C5_Witness ==
    /\ ctOut.called /\ ctOut.populated
    /\ <<"tiff">> \in DefaultExts(ctOut.types)
    /\ \E n \in ctOut.images : guess_type(<<"a", DOT>> \o ExtOf(n))[1] = NoneMt
    /\ <<"fonts/font2", DOT, "ttf">> \in ctOut.fonts

----------------------------------------------------------------------------
\* Claims about update_doc_props (checked under SpecProps).

WithTag(children, tag) == SelectSeq(children, LAMBDA c : c.tag = tag)

\* C6: after any sequence of update_doc_props calls on one root, the root
\* holds one element for each name the calls set, the title element carries
\* the title of the last call, and the last call left the elements of the
\* names it did not set as they were.
C6_ReplaceNotAppend ==
    propLog.titles # <<>> =>
        /\ \A tag \in propLog.set : Len(WithTag(root, tag)) = 1
        /\ WithTag(root, QName("dc", "title"))
             = << [tag |-> QName("dc", "title"), text |-> <<propLog.titles[Len(propLog.titles)]>>] >>
        /\ SelectSeq(root, LAMBDA c : c.tag \notin propLog.last)
             = SelectSeq(propLog.before, LAMBDA c : c.tag \notin propLog.last)
        /\ Len(root) = Len(SelectSeq(propLog.before, LAMBDA c : c.tag \notin propLog.last))
                         + Cardinality(propLog.last)

\* Two calls with different titles on a root that held three titles.
C6_Witness ==
    /\ Len(propLog.titles) = 2 /\ propLog.titles[1] # propLog.titles[2]
    /\ Len(WithTag(root, QName("dc", "description"))) = 2
    /\ Len(WithTag(root, QName("cp", "keywords"))) = 1

----------------------------------------------------------------------------
\* Claims about write (checked under SpecWrite).

Range(seq) == {seq[i] : i \in 1..Len(seq)}

\* C7: a write that completes has put the ten fixed entries first, once
\* each and in order, then one entry per image, then one entry per font;
\* it invoked each image's getter once, when it wrote the image's entry,
\* and no getter before the fixed entries were written.
C7_EntryOrder ==
    /\ \A i \in 1..Len(calls) : calls[i].at >= Len(FixedNames)
    /\ wstate = "done" =>
          LET ns == Names(zf)
              ni == Cardinality(wArgs.images)
              nf == Cardinality(wArgs.fonts)
          IN  /\ Len(zf) = 10 + ni + nf
              /\ SubSeq(ns, 1, 10) = FixedNames
              /\ \A p \in 1..10 : CountOf(ns, FixedNames[p]) = 1
              /\ {ns[i] : i \in 11..(10 + ni)} = wArgs.images
              /\ {ns[i] : i \in (11 + ni)..Len(zf)} = wArgs.fonts
              /\ Len(calls) = ni
              /\ \A i \in 1..ni : /\ calls[i].name = ns[10 + i]
                                   /\ calls[i].at = 10 + i - 1
                                   /\ calls[i].ok

\* A write of two images and a font completed.
C7_Witness ==
    wstate = "done" /\ Cardinality(wArgs.images) = 2 /\ Cardinality(wArgs.fonts) = 1

\* C9: when an image's getter raises, write ends with that exception: the
\* image has no entry, the getter was not tried before, no getter is
\* invoked and nothing is written afterwards, and no font is written.
C9_GetterFailureAborts ==
    \A i \in 1..Len(calls) :
        ~calls[i].ok =>
            /\ i = Len(calls)
            /\ wstate = "failed"
            /\ exc = [kind |-> "getter", name |-> calls[i].name]
            /\ calls[i].name \notin Range(Names(zf))
            /\ \A j \in 1..(i - 1) : calls[j].name # calls[i].name
            /\ Len(zf) = calls[i].at
            /\ Range(Names(zf)) \cap wArgs.fonts = {}

\* The getter of the first of two images raised in a write that had a font.
C9_Witness ==
    /\ exc.kind = "getter" /\ Len(calls) = 1
    /\ Cardinality(wArgs.images) = 2 /\ wArgs.fonts # {}

\* C10 as claimed: the registry is serialized once in the life of a DOCX
\* and does not change once a write has serialized it.
C10_WriteIsTerminal ==
    /\ Len(serialLog) <= 1
    /\ \A i \in 1..Len(serialLog) : serialLog[i].rmap = rmap

\* C10 as amended: every write serializes the registry once, when it
\* writes word/_rels/document.xml.rels, from the registry as it is then;
\* write is not terminal: the registry may change after a write and a
\* later write on the same DOCX serializes it again.
C10_OncePerWrite ==
    /\ \A i, j \in 1..Len(serialLog) : i # j => serialLog[i].write # serialLog[j].write
    /\ \A i \in 1..Len(serialLog) : serialLog[i].at = RelsPos - 1
    /\ (wstate = "done" \/ (wstate = "writing" /\ pos > RelsPos)) =>
          /\ serialLog # <<>>
          /\ serialLog[Len(serialLog)].write = writeCount
          /\ zf[RelsPos] = [name |-> FixedNames[RelsPos],
                            data |-> serialize(serialLog[Len(serialLog)].rmap, dictOrder)]
    /\ (wstate = "writing" /\ pos <= RelsPos) =>
          \A i \in 1..Len(serialLog) : serialLog[i].write # writeCount

\* Two writes serialized the registry, which changed between them.
C10_Witness ==
    /\ Len(serialLog) = 2 /\ wstate = "done"
    /\ serialLog[1].rmap # serialLog[2].rmap

====
